---- MODULE Spec2Model ----
(***************************************************************************)
(* A model of one run of wabbajack_cleaner.main(): the modlist is loaded   *)
(* and indexed (Modlist.__init__), the download directory is scanned       *)
(* (Downloads.__init__, one ModArchive per archive file), every archive is *)
(* looked up by name and then by hash, and the archives found in neither   *)
(* index are removed (ModArchive.remove) or, in a dry run, only logged.    *)
(*                                                                         *)
(* The files the run reads are inputs of the step that reads them: the     *)
(* modlist document of LoadModlist, the directory of ScanDownloads.  What  *)
(* was read is kept in the state (meta, manifest, dir), so that properties *)
(* can speak of the inputs.  A JSON key or an INI key that is absent is    *)
(* the value NoKey; Python's None is the value None.                       *)
(***************************************************************************)
EXTENDS Integers, Sequences, FiniteSets, TLC

\* Scope of a run: manifest records plus directory entries.
MaxInput == 3

NoKey == "<absent>"
None == "None"

(***************************************************************************)
(* The inputs.                                                             *)
(***************************************************************************)
ArchiveNames == {"foo.zip", "bar.zip"}
FileNames == ArchiveNames \cup {"notes.txt"}
RecordHashes == {"H1", "H2"}

\* A "$type" text, as the identifiers it is made of ("A, B" is <<"A", "B">>).
NexusType == <<"NexusDownloader", "Wabbajack.Lib">>
GameType == <<"GameFileSourceDownloader", "Wabbajack.Lib">>
Types == {NexusType, GameType}

\* A record of the manifest's "Archives" list.  State is the "$type" of the
\* record's "State" object; the documents read have the keys GameType, Version
\* and Archives, and their records a State with a "$type".
Records == [Name : ArchiveNames \cup {NoKey},
            Hash : RecordHashes \cup {NoKey},
            State : Types]

\* download_metadata of the <modlist>.wabbajack.metadata file, and the size of
\* the .wabbajack file itself.
ZipSizes == {2}
MetaSizes == {1, 2}
ArchiveCounts == {-1, 0, 2}

\* The bytes of a downloaded archive.
Contents == {"bytesA", "bytesB"}

\* The values of an INI key of the sidecar's General section.
IniValues == {NoKey, "true", "false"}

\* A sidecar <archive>.meta: not there, not decodable or not parsable, without
\* a General section, or a General section with its two keys.
BadMetas == {[kind |-> k, installed |-> NoKey, removed |-> NoKey] :
                k \in {"missing", "garbled", "nogeneral"}}
Metas == BadMetas \cup [kind : {"general"}, installed : IniValues, removed : IniValues]

Ext(name) ==
    CASE name = "foo.zip" -> ".zip"
      [] name = "bar.zip" -> ".zip"
      [] name = "notes.txt" -> ".txt"

\* A directory entry: a file with its bytes and the sidecar beside it.
Entries ==
    [name : ArchiveNames, content : Contents, meta : Metas]
    \cup {[name |-> "notes.txt", content |-> "bytesA",
           meta |-> [kind |-> "missing", installed |-> NoKey, removed |-> NoKey]]}

SeqNames(l) == {l[i].name : i \in DOMAIN l}

\* os.listdir: the entries of the directory, each name once, in any order.
ListingsOfLen[k \in 0..MaxInput] ==
    IF k = 0 THEN {<<>>}
    ELSE {Append(p[1], p[2]) :
            p \in {q \in ListingsOfLen[k - 1] \X Entries : q[2].name \notin SeqNames(q[1])}}

ManifestsOfLen == [k \in 0..MaxInput |-> [1..k -> Records]]

(***************************************************************************)
(* The state.                                                              *)
(***************************************************************************)
VARIABLES
    pc,              \* where main() is
    dry_run,         \* args.dry_run
    force_delete,    \* args.force_delete
    abort_reason,    \* why sys.exit(1) was called, "" if it was not
    meta,            \* the modlist metadata read, and the .wabbajack file's size
    manifest,        \* the "Archives" list of the modlist document read
    modlist_by_file, \* Modlist.modlist_by_file
    modlist_by_hash, \* Modlist.modlist_by_hash
    temp_files,      \* the pretty-printed JSON files in the working directory
    dir,             \* the download directory as listed
    archives,        \* Downloads.archives, the ModArchive objects in order
    cursor,          \* position of the running loop of main()
    found,           \* main(): found, as indices of archives
    found_size,      \* main(): found_size
    deleted,         \* the os.remove calls made, in order
    log              \* the logging calls made, in order

vars == <<pc, dry_run, force_delete, abort_reason, meta, manifest, modlist_by_file,
          modlist_by_hash, temp_files, dir, archives, cursor, found, found_size,
          deleted, log>>

NoMeta == [Size |-> 0, NumberOfArchives |-> 0, zip_size |-> 0]
EmptyMap == [x \in {} |-> x]
Put(f, k, v) == [x \in DOMAIN f \cup {k} |-> IF x = k THEN v ELSE f[x]]

LogEntry(level, op, name, n) == [level |-> level, op |-> op, name |-> name, n |-> n]

ArchivePath(name) == [file |-> name, part |-> "archive"]
MetaPath(name) == [file |-> name, part |-> "meta"]

(***************************************************************************)
(* ModArchive                                                              *)
(***************************************************************************)
\* xxh64 digest, reversed, base64: the fingerprint of the bytes.
Fingerprint(content) ==
    CASE content = "bytesA" -> "H1"
      [] content = "bytesB" -> "H2"

\* os.stat(path).st_size
SizeOf(content) ==
    CASE content = "bytesA" -> 100
      [] content = "bytesB" -> 250

\* general[key] == "true", None when the key is absent
parse_flag(raw) ==
    IF raw = NoKey THEN None
    ELSE IF raw = "true" THEN "True" ELSE "False"

\* Why ModArchive(path) exits, "" when it does not.
parse_meta_error(entry) ==
    CASE entry.meta.kind = "missing" -> "meta_not_found"
      [] entry.meta.kind = "garbled" -> "meta_parse_failed"
      [] entry.meta.kind = "nogeneral" -> "meta_no_general"
      [] OTHER -> ""

\* ModArchive.__init__: hashed counts the runs of __xxh64_file on the object,
\* calls the calls of get_hash.
ModArchive(entry) ==
    [name |-> entry.name,
     file_size |-> SizeOf(entry.content),
     content |-> entry.content,
     hash |-> None,
     m_installed |-> parse_flag(entry.meta.installed),
     m_removed |-> parse_flag(entry.meta.removed),
     hashed |-> 0,
     calls |-> 0]

\* ModArchive.__xxh64_file: reads the file and sets self.hash.
xxh64_file(a) == [a EXCEPT !.hash = Fingerprint(a.content), !.hashed = @ + 1]

\* get_hash without the test of self.hash: every call reads the file again.
get_hash_always_reads(a) == xxh64_file([a EXCEPT !.calls = @ + 1])

\* ModArchive.get_hash: the object after the call (its hash is the result).
get_hash(a) ==
    IF a.hash = None THEN xxh64_file([a EXCEPT !.calls = @ + 1])
    ELSE [a EXCEPT !.calls = @ + 1]

\* remove with the two tests in the other order and no test of force_delete.
remove_ignores_installed(a, force) ==
    IF a.m_removed # None /\ a.m_removed = "True"
    THEN [paths |-> <<ArchivePath(a.name), MetaPath(a.name)>>,
          logs |-> <<LogEntry("info", "remove_archive", a.name, 0),
                     LogEntry("info", "remove_meta", a.name, 0)>>]
    ELSE IF a.m_installed # None /\ a.m_installed = "True"
    THEN [paths |-> <<ArchivePath(a.name), MetaPath(a.name)>>,
          logs |-> <<LogEntry("info", "remove_archive_force", a.name, 0),
                     LogEntry("info", "remove_meta_force", a.name, 0)>>]
    ELSE [paths |-> <<>>, logs |-> <<>>]

\* remove without the os.remove of the sidecar.
remove_keeps_sidecar(a, force) ==
    IF a.m_installed # None /\ a.m_installed = "True"
    THEN IF force
         THEN [paths |-> <<ArchivePath(a.name)>>,
               logs |-> <<LogEntry("info", "remove_archive_force", a.name, 0)>>]
         ELSE [paths |-> <<>>,
               logs |-> <<LogEntry("critical", "cannot_delete_installed", a.name, 0)>>]
    ELSE IF a.m_removed # None /\ a.m_removed = "True"
    THEN [paths |-> <<ArchivePath(a.name)>>,
          logs |-> <<LogEntry("info", "remove_archive", a.name, 0)>>]
    ELSE [paths |-> <<>>, logs |-> <<>>]

\* ModArchive.remove: the os.remove calls and the logging calls it makes.
remove(a, force) ==
    IF a.m_installed # None /\ a.m_installed = "True"
    THEN IF force
         THEN [paths |-> <<ArchivePath(a.name), MetaPath(a.name)>>,
               logs |-> <<LogEntry("info", "remove_archive_force", a.name, 0),
                          LogEntry("info", "remove_meta_force", a.name, 0)>>]
         ELSE [paths |-> <<>>,
               logs |-> <<LogEntry("critical", "cannot_delete_installed", a.name, 0)>>]
    ELSE IF a.m_removed # None /\ a.m_removed = "True"
    THEN [paths |-> <<ArchivePath(a.name), MetaPath(a.name)>>,
          logs |-> <<LogEntry("info", "remove_archive", a.name, 0),
                     LogEntry("info", "remove_meta", a.name, 0)>>]
    ELSE [paths |-> <<>>, logs |-> <<>>]

(***************************************************************************)
(* Downloads                                                               *)
(***************************************************************************)
\* f_ext in [".7z", ".rar", ".zip"]
IsArchiveExt(ext) == ext \in {".7z", ".rar", ".zip"}

\* Downloads.__init__ with a ModArchive that does not exit on a bad sidecar.
DownloadsAnySidecar(listing) ==
    LET files == SelectSeq(listing, LAMBDA e : IsArchiveExt(Ext(e.name)))
    IN  [error |-> "", archives |-> [i \in 1..Len(files) |-> ModArchive(files[i])]]

\* Downloads.__init__: the ModArchive objects in listing order, or the error of
\* the first archive whose ModArchive() exits.
Downloads(listing) ==
    LET files == SelectSeq(listing, LAMBDA e : IsArchiveExt(Ext(e.name)))
        bad == {i \in 1..Len(files) : parse_meta_error(files[i]) # ""}
    IN  IF bad # {}
        THEN [error |-> parse_meta_error(files[CHOOSE i \in bad : \A j \in bad : i <= j]),
              archives |-> <<>>]
        ELSE [error |-> "", archives |-> [i \in 1..Len(files) |-> ModArchive(files[i])]]

(***************************************************************************)
(* Modlist                                                                 *)
(***************************************************************************)
\* text in _type
Contains(type, text) == \E i \in DOMAIN type : type[i] = text

\* Modlist.__iter_archives
iter_archives(records) ==
    SelectSeq(records, LAMBDA r : Contains(r.State, "NexusDownloader")
                                  /\ Contains(r.State, "Wabbajack.Lib"))

RECURSIVE parse_modlist_from(_, _, _, _)
parse_modlist_from(mods, i, by_file, by_hash) ==
    IF i > Len(mods)
    THEN [error |-> "", by_file |-> by_file, by_hash |-> by_hash]
    ELSE LET mod == mods[i]
             fail(e) == [error |-> e, by_file |-> by_file, by_hash |-> by_hash]
         IN  IF mod.Name = NoKey THEN fail("missing_name")
             ELSE IF mod.Name \in DOMAIN by_file THEN fail("duplicate_name")
             ELSE LET named == Put(by_file, mod.Name, mod)
                      failed(e) == [error |-> e, by_file |-> named, by_hash |-> by_hash]
                  IN  IF mod.Hash = NoKey THEN failed("missing_hash")
                      ELSE IF mod.Hash \in DOMAIN by_hash THEN failed("duplicate_hash")
                      ELSE parse_modlist_from(mods, i + 1, named, Put(by_hash, mod.Hash, mod))

\* Modlist.__parse_modlist
parse_modlist(records) == parse_modlist_from(iter_archives(records), 1, EmptyMap, EmptyMap)

\* Modlist.get_mod_by_file: <<mod>>, or <<>> for None
get_mod_by_file(file) ==
    IF file \in DOMAIN modlist_by_file THEN <<modlist_by_file[file]>> ELSE <<>>

\* Modlist.get_mod_by_hash: <<mod>>, or <<>> for None
get_mod_by_hash(file_hash) ==
    IF file_hash \in DOMAIN modlist_by_hash THEN <<modlist_by_hash[file_hash]>> ELSE <<>>

(***************************************************************************)
(* main                                                                    *)
(***************************************************************************)
Init ==
    /\ pc = "start"
    /\ dry_run \in BOOLEAN
    /\ force_delete \in BOOLEAN
    /\ abort_reason = ""
    /\ meta = NoMeta
    /\ manifest = <<>>
    /\ modlist_by_file = EmptyMap
    /\ modlist_by_hash = EmptyMap
    /\ temp_files = {}
    /\ dir = <<>>
    /\ archives = <<>>
    /\ cursor = 1
    /\ found = <<>>
    /\ found_size = 0
    /\ deleted = <<>>
    /\ log = <<>>

Abort(reason, name) ==
    /\ pc' = "aborted"
    /\ abort_reason' = reason
    /\ log' = Append(log, LogEntry("error", reason, name, 0))

\* Modlist(args.modlist_file), up to the first exit
LoadModlist ==
    /\ pc = "start"
    /\ \E size \in MetaSizes, count \in ArchiveCounts, zip \in ZipSizes :
        /\ meta' = [Size |-> size, NumberOfArchives |-> count, zip_size |-> zip]
        /\ IF count <= 0
           THEN /\ Abort("bad_archives_count", "")
                /\ temp_files' = {"modlist.metadata.json"}
                /\ UNCHANGED <<manifest, modlist_by_file, modlist_by_hash>>
           ELSE IF zip # size
           THEN /\ Abort("size_mismatch", "")
                /\ temp_files' = {"modlist.metadata.json"}
                /\ UNCHANGED <<manifest, modlist_by_file, modlist_by_hash>>
           ELSE \E k \in 0..MaxInput : \E records \in ManifestsOfLen[k] :
                LET parsed == parse_modlist(records)
                IN  /\ manifest' = records
                    /\ temp_files' = {"modlist.metadata.json", "modlist.json"}
                    /\ modlist_by_file' = parsed.by_file
                    /\ modlist_by_hash' = parsed.by_hash
                    /\ IF parsed.error # ""
                       THEN Abort(parsed.error, "")
                       ELSE /\ pc' = "loaded"
                            /\ UNCHANGED <<abort_reason, log>>
    /\ UNCHANGED <<dry_run, force_delete, dir, archives, cursor, found, found_size,
                   deleted>>

\* Downloads(args.download_dir)
ScanDownloads ==
    /\ pc = "loaded"
    /\ \E k \in 0..(MaxInput - Len(manifest)) : \E listing \in ListingsOfLen[k] :
        LET scanned == Downloads(listing)
        IN  /\ dir' = listing
            /\ archives' = scanned.archives
            /\ IF scanned.error # ""
               THEN Abort(scanned.error, "")
               ELSE /\ pc' = "classify"
                    /\ log' = Append(log, LogEntry("info", "found_archives", "",
                                                   Len(scanned.archives)))
                    /\ UNCHANGED abort_reason
    /\ UNCHANGED <<dry_run, force_delete, meta, manifest, modlist_by_file,
                   modlist_by_hash, temp_files, cursor, found, found_size, deleted>>

\* The loop body with the hash lookup made before the name lookup.
lookup_hash_first(a) ==
    LET hashed == get_hash(a)
    IN  IF get_mod_by_hash(hashed.hash) # <<>> THEN [arch |-> hashed, found |-> FALSE]
        ELSE IF get_mod_by_file(a.name) # <<>> THEN [arch |-> hashed, found |-> FALSE]
        ELSE [arch |-> get_hash(hashed), found |-> TRUE]

\* One pass of main()'s first loop over an archive: the object after it, and
\* whether the archive was appended to found.
lookup(a) ==
    IF get_mod_by_file(a.name) # <<>>
    THEN [arch |-> a, found |-> FALSE]
    ELSE LET hashed == get_hash(a)
         IN  IF get_mod_by_hash(hashed.hash) # <<>>
             THEN [arch |-> hashed, found |-> FALSE]
             ELSE [arch |-> get_hash(hashed), found |-> TRUE]

\* for arch in downloads.iter_mods(): ...
Classify ==
    /\ pc = "classify"
    /\ cursor <= Len(archives)
    /\ LET r == lookup(archives[cursor])
       IN  /\ archives' = [archives EXCEPT ![cursor] = r.arch]
           /\ IF r.found
              THEN /\ found' = Append(found, cursor)
                   /\ found_size' = found_size + r.arch.file_size
                   /\ log' = Append(log, LogEntry("warning", "not_in_modlist",
                                                  r.arch.name, r.arch.file_size))
              ELSE UNCHANGED <<found, found_size, log>>
    /\ cursor' = cursor + 1
    /\ UNCHANGED <<pc, dry_run, force_delete, abort_reason, meta, manifest,
                   modlist_by_file, modlist_by_hash, temp_files, dir, deleted>>

\* if len(found) > 0: ... else: ...
Report ==
    /\ pc = "classify"
    /\ cursor > Len(archives)
    /\ IF Len(found) > 0
       THEN /\ log' = Append(log, LogEntry("info", "found_not_in_modlist", "", Len(found)))
            /\ pc' = "remove"
       ELSE /\ log' = Append(log, LogEntry("info", "all_clean", "", 0))
            /\ pc' = "cleanup"
    /\ cursor' = 1
    /\ UNCHANGED <<dry_run, force_delete, abort_reason, meta, manifest, modlist_by_file,
                   modlist_by_hash, temp_files, dir, archives, found, found_size,
                   deleted>>

\* for arch in found: ... (the loop ends with its last archive)
RemoveFound ==
    /\ pc = "remove"
    /\ cursor <= Len(found)
    /\ LET a == archives[found[cursor]]
       IN  IF dry_run
           THEN /\ log' = Append(log, LogEntry("info", "remove_not_really", a.name,
                                               a.file_size))
                /\ UNCHANGED deleted
           ELSE LET r == remove(a, force_delete)
                IN  /\ log' = log \o r.logs
                    /\ deleted' = deleted \o r.paths
    /\ cursor' = cursor + 1
    /\ pc' = IF cursor = Len(found) THEN "cleanup" ELSE "remove"
    /\ UNCHANGED <<dry_run, force_delete, abort_reason, meta, manifest,
                   modlist_by_file, modlist_by_hash, temp_files, dir, archives, found,
                   found_size>>

\* modlist.remove_temp_files() and the closing log line
Finish ==
    /\ pc = "cleanup"
    /\ temp_files' = {}
    /\ log' = Append(log, LogEntry("info", "finished", "", 0))
    /\ pc' = "done"
    /\ UNCHANGED <<dry_run, force_delete, abort_reason, meta, manifest, modlist_by_file,
                   modlist_by_hash, dir, archives, cursor, found, found_size, deleted>>

Next ==
    \/ LoadModlist
    \/ ScanDownloads
    \/ Classify
    \/ Report
    \/ RemoveFound
    \/ Finish

Spec == Init /\ [][Next]_vars

(***************************************************************************)
(* What the properties speak of.                                           *)
(***************************************************************************)
FoundSet == {found[k] : k \in DOMAIN found}
IsDeleted(path) == \E p \in DOMAIN deleted : deleted[p] = path
Logged(op, name) == \E e \in DOMAIN log : log[e].op = op /\ log[e].name = name

\* The Names and the Hashes of the records of the manifest's Archives list.
ManifestNames == {manifest[r].Name : r \in DOMAIN manifest} \ {NoKey}
ManifestHashes == {manifest[r].Hash : r \in DOMAIN manifest} \ {NoKey}

\* The first loop of main() has passed archive i.
Classified(i) == (pc = "classify" /\ i < cursor) \/ pc \in {"remove", "cleanup", "done"}

\* The second loop of main() has passed found[k].
Processed(k) == (pc = "remove" /\ k < cursor) \/ pc \in {"cleanup", "done"}

\* The archive files of the directory listed, the files Downloads keeps.
Discovered == {e \in DOMAIN dir : IsArchiveExt(Ext(dir[e].name))}

(***************************************************************************)
(* C1.  A downloaded archive whose filename is the Name of some record of  *)
(* the manifest's Archives list, or whose content hash is the Hash of some *)
(* record of that list, is never put in the unreferenced set, and neither  *)
(* it nor its sidecar is ever deleted.                                     *)
(***************************************************************************)
C1_ReferencedNeverUnreferenced ==
    \A i \in DOMAIN archives :
        (\/ archives[i].name \in ManifestNames
         \/ Fingerprint(archives[i].content) \in ManifestHashes)
        => /\ i \notin FoundSet
           /\ ~IsDeleted(ArchivePath(archives[i].name))
           /\ ~IsDeleted(MetaPath(archives[i].name))

HasDuplicateName ==
    \E r, q \in DOMAIN manifest :
        r # q /\ manifest[r].Name # NoKey /\ manifest[r].Name = manifest[q].Name
HasDuplicateHash ==
    \E r, q \in DOMAIN manifest :
        r # q /\ manifest[r].Hash # NoKey /\ manifest[r].Hash = manifest[q].Hash

C3_DuplicateRecordsAbortLoad ==
    (HasDuplicateName \/ HasDuplicateHash)
    => /\ pc = "aborted"
       /\ dir = <<>>
       /\ archives = <<>>
       /\ found = <<>>
       /\ deleted = <<>>

(***************************************************************************)
(* C4.  An unreferenced archive whose sidecar has installed = true,        *)
(* whatever removed is: in a real run without force the deletion is        *)
(* refused (logged as critical), archive and sidecar stay, the run does    *)
(* not abort and goes on to delete the other archives it may delete; with  *)
(* force both files are deleted and both deletions are logged as forced.   *)
(***************************************************************************)
C4_InstalledRefusedUnlessForced ==
    \A k \in DOMAIN found :
        LET a == archives[found[k]]
        IN  (a.m_installed = "True" /\ ~dry_run /\ Processed(k))
            => IF force_delete
               THEN /\ IsDeleted(ArchivePath(a.name))
                    /\ IsDeleted(MetaPath(a.name))
                    /\ Logged("remove_archive_force", a.name)
                    /\ Logged("remove_meta_force", a.name)
                    /\ ~Logged("cannot_delete_installed", a.name)
               ELSE /\ ~IsDeleted(ArchivePath(a.name))
                    /\ ~IsDeleted(MetaPath(a.name))
                    /\ Logged("cannot_delete_installed", a.name)
                    /\ pc # "aborted" /\ abort_reason = ""
                    /\ \A m \in DOMAIN found :
                        LET b == archives[found[m]]
                        IN  (Processed(m) /\ b.m_installed # "True" /\ b.m_removed = "True")
                            => IsDeleted(ArchivePath(b.name)) /\ IsDeleted(MetaPath(b.name))

\* A real run without force that refused an installed archive and then went on
\* to delete the next one.
C4_Witness ==
    /\ pc = "done" /\ ~dry_run /\ ~force_delete
    /\ Len(found) = 2
    /\ archives[found[1]].m_installed = "True"
    /\ archives[found[1]].m_removed = "True"
    /\ Logged("cannot_delete_installed", archives[found[1]].name)
    /\ ~IsDeleted(ArchivePath(archives[found[1]].name))
    /\ IsDeleted(ArchivePath(archives[found[2]].name))

(***************************************************************************)
(* C5.  An unreferenced archive whose sidecar has installed unknown or     *)
(* false and removed = true: a real run, with or without force, deletes    *)
(* the archive file and next its sidecar file, each once, so that neither  *)
(* is there when the run ends.                                             *)
(***************************************************************************)
C5_RemovedDeleted ==
    \A k \in DOMAIN found :
        LET a == archives[found[k]]
        IN  (a.m_installed \in {None, "False"} /\ a.m_removed = "True"
             /\ ~dry_run /\ Processed(k))
            => /\ \E p \in DOMAIN deleted :
                    /\ deleted[p] = ArchivePath(a.name)
                    /\ p + 1 \in DOMAIN deleted
                    /\ deleted[p + 1] = MetaPath(a.name)
               /\ Cardinality({p \in DOMAIN deleted : deleted[p].file = a.name}) = 2
               /\ Logged("remove_archive", a.name)
               /\ Logged("remove_meta", a.name)

\* A finished real run without force that deleted such an archive, whose
\* sidecar says installed = false.
C5_Witness ==
    /\ pc = "done" /\ ~dry_run /\ ~force_delete
    /\ \E k \in DOMAIN found :
        /\ archives[found[k]].m_installed = "False"
        /\ archives[found[k]].m_removed = "True"
        /\ deleted = <<ArchivePath(archives[found[k]].name),
                       MetaPath(archives[found[k]].name)>>

(***************************************************************************)
(* C6.  An unreferenced archive whose sidecar has installed unknown or     *)
(* false and removed unknown or false is not deleted, with or without      *)
(* force, and the log reports it as unactioned: the deletion decision for  *)
(* an unreferenced archive always leaves a log entry.                      *)
(***************************************************************************)
DecisionOps == {"remove_not_really", "remove_archive", "remove_meta",
                "remove_archive_force", "remove_meta_force", "cannot_delete_installed"}

C6_AmbiguousKeptAndReported ==
    \A k \in DOMAIN found :
        LET a == archives[found[k]]
        IN  (a.m_installed \in {None, "False"} /\ a.m_removed \in {None, "False"}
             /\ Processed(k))
            => /\ ~IsDeleted(ArchivePath(a.name))
               /\ ~IsDeleted(MetaPath(a.name))
               /\ \E e \in DOMAIN log :
                    log[e].name = a.name /\ log[e].op \in DecisionOps

(***************************************************************************)
(* C7.  A dry run deletes nothing, and the archives it logs as removed are *)
(* the archives a real run with the same modlist, directory and force flag *)
(* deletes (an archive refused as installed, or left as ambiguous, is not  *)
(* logged as removed).                                                     *)
(***************************************************************************)
LoggedAsRemoved == {log[e].name : e \in {x \in DOMAIN log : log[x].op = "remove_not_really"}}
RealRunDeletes ==
    {archives[found[k]].name :
        k \in {x \in DOMAIN found : remove(archives[found[x]], force_delete).paths # <<>>}}

C7_DryRunSameDecision ==
    (pc = "done" /\ dry_run) => deleted = <<>> /\ LoggedAsRemoved = RealRunDeletes

(***************************************************************************)
(* C8.  Whatever the mode, the run reports the number of manifest records  *)
(* that no downloaded archive matches, by name or by hash, not counting    *)
(* the records that come from installed game files.                        *)
(***************************************************************************)
GameFileSourced(record) == Contains(record.State, "GameFileSourceDownloader")
HasArchive(record) ==
    \E i \in DOMAIN archives :
        \/ (record.Name # NoKey /\ archives[i].name = record.Name)
        \/ (record.Hash # NoKey /\ Fingerprint(archives[i].content) = record.Hash)
MissingCount ==
    Cardinality({r \in DOMAIN manifest :
                    ~GameFileSourced(manifest[r]) /\ ~HasArchive(manifest[r])})

C8_MissingArchivesReported ==
    pc = "done"
    => \E e \in DOMAIN log : log[e].op = "missing_archives" /\ log[e].n = MissingCount

(***************************************************************************)
(* C9.  Every fatal validation error comes before every deletion: when the *)
(* loader rejects the modlist (NumberOfArchives not positive, size         *)
(* mismatch, a record without Name or Hash, a duplicate key) or any        *)
(* archive of the directory, referenced or not, has a sidecar that is      *)
(* missing, unparsable or without a General section, the run aborts; and   *)
(* at an abort no archive has been classified or hashed and no file has    *)
(* been deleted.                                                           *)
(***************************************************************************)
MetaRejected ==
    meta # NoMeta /\ (meta.NumberOfArchives <= 0 \/ meta.Size # meta.zip_size)
RecordsRejected ==
    LET mods == iter_archives(manifest)
    IN  \/ \E r \in DOMAIN mods : mods[r].Name = NoKey \/ mods[r].Hash = NoKey
        \/ \E r, q \in DOMAIN mods :
            r # q /\ (mods[r].Name = mods[q].Name \/ mods[r].Hash = mods[q].Hash)
SidecarRejected == \E e \in Discovered : dir[e].meta.kind # "general"

HashedAtMostOnce ==
    \A i \in DOMAIN archives :
        /\ archives[i].hashed <= 1
        /\ archives[i].calls >= 1 => archives[i].hashed = 1
        /\ archives[i].hash # None <=> archives[i].hashed = 1
HashKept ==
    \A i \in DOMAIN archives :
        archives[i].hash # None
        => i \in DOMAIN archives' /\ archives'[i].hash = archives[i].hash

C10_HashMemoized == []HashedAtMostOnce /\ [][HashKept]_vars

\* An archive on which get_hash was called twice (for the hash lookup and for
\* the log line) and whose bytes were read once.
C10_Witness ==
    \E i \in DOMAIN archives : archives[i].calls = 2 /\ archives[i].hashed = 1

====
